---------------------------- MODULE Spec2Model ----------------------------
(***************************************************************************)
(* A model of tosqla/mysqla.py: ModelMaker.convert_table, run_tables,      *)
(* gen_tables and mkcopy.                                                   *)
(*                                                                          *)
(* A reflected column is a record                                           *)
(*   [name, typ, values, charset, length, precision, scale, nullable,       *)
(*    primary_key, index, unique]                                           *)
(* where typ is the class name of the column's type object, values the      *)
(* tuple of an ENUM/SET type, and charset/length/precision/scale the        *)
(* type's attributes as text ("" when the attribute is absent or None).     *)
(* A reflected index is [name, columns, unique]; a table is                 *)
(* [name, columns, indexes, charset], indexes being a set as in SQLAlchemy. *)
(* The Identifier Normalizer (column_name, pascal_case) is not modelled:    *)
(* the ColDict and TableDict records carry every other field.               *)
(***************************************************************************)
EXTENDS Naturals, Sequences, FiniteSets, TLC

(***************************************************************************)
(* Bounds of the model.                                                     *)
(***************************************************************************)
\* total number of columns over all the tables of a generation run
MaxColumns == 3
\* columns of the table whose indexes are reconciled
MaxIdxCols == 2
\* indexes of that table
MaxIndexes == 2
\* columns of the source table of mkcopy
MaxSrcCols == 3

VARIABLES
    schemas,      \* the reflected schema graph handed to run_tables (never changes)
    hashOrd,      \* iteration order of frozenset(values), fixed by the process's hashing
    tables,       \* the Table objects; convert_table consumes their index sets
    pc,           \* position in run_tables / convert_table
    t,            \* run_tables: position of the table being translated
    ci,           \* convert_table: position of the next column
    columns,      \* convert_table: columns
    enums,        \* convert_table: enums, in insertion order
    sets,         \* convert_table: sets, in insertion order
    localImp,     \* convert_table: <<imports, mysql, pyimports>>
    runImp,       \* run_tables: <<imports, mysql, pyimports>>
    enums_seen,   \* run_tables: enums_seen
    ret,          \* run_tables: ret (the TableDict handed to render_table, per table)
    out,          \* what gen_tables printed: <<>> before it ran
    err,          \* the RuntimeError raised, or NoError
    first,        \* the outcome of the previous run on the same schemas, or NoRun
    cp            \* mkcopy: its locals and result

vars == <<schemas, hashOrd, tables, pc, t, ci, columns, enums, sets, localImp,
          runImp, enums_seen, ret, out, err, first, cp>>

runVars == <<schemas, hashOrd, tables, pc, t, ci, columns, enums, sets, localImp,
             runImp, enums_seen, ret, out, err, first>>

(***************************************************************************)
(* Helpers.                                                                 *)
(***************************************************************************)
Range(s) == {s[i] : i \in 1..Len(s)}

RECURSIVE Underscores(_)
Underscores(k) == IF k = 0 THEN "" ELSE "_" \o Underscores(k - 1)

\* ", ".join(f'"{v}"' for v in vs)
RECURSIVE JoinQuoted(_)
JoinQuoted(vs) ==
    IF Len(vs) = 0 THEN ""
    ELSE IF Len(vs) = 1 THEN "\"" \o vs[1] \o "\""
    ELSE "\"" \o vs[1] \o "\"" \o ", " \o JoinQuoted(Tail(vs))

\* the orders in which a set holding the values of tuple vs may be iterated
Orders(vs) == {s \in [1..Len(vs) -> Range(vs)] : Range(s) = Range(vs)}

(***************************************************************************)
(* The type classes convert_table probes with isinstance, by class name.    *)
(***************************************************************************)
DoubleClasses == {"DOUBLE"}
FloatClasses == {"DOUBLE", "FLOAT", "REAL", "Float"}
IntegerClasses == {"INTEGER", "BIGINT", "SMALLINT", "TINYINT", "MEDIUMINT", "Integer"}
DecimalClasses == {"DECIMAL"}
TimestampClasses == {"TIMESTAMP"}
DateTimeClasses == {"TIMESTAMP", "DATETIME", "DateTime"}
DateClasses == {"DATE", "Date"}
SetClasses == {"SET"}
EnumClasses == {"ENUM", "Enum"}
TextClasses == {"Text", "TEXT", "MEDIUMTEXT", "TINYTEXT", "LONGTEXT"}
StringClasses == {"VARCHAR", "CHAR", "String"}
BlobClasses == {"BLOB", "LONGBLOB", "MEDIUMBLOB"}
BinaryClasses == {"BINARY"}
JsonClasses == {"JSON"}
YearClasses == {"YEAR"}
\* classes no branch of the dispatch matches
UnknownClasses == {"TIME", "NUMERIC", "TINYBLOB", "VARBINARY"}

KnownClasses ==
    FloatClasses \cup IntegerClasses \cup DecimalClasses \cup DateTimeClasses
    \cup DateClasses \cup SetClasses \cup EnumClasses \cup TextClasses
    \cup StringClasses \cup BlobClasses \cup BinaryClasses \cup JsonClasses
    \cup YearClasses

\* the iteration order of frozenset(vs)
IterOrder(vs) == hashOrd[vs]

\* enums: a dict frozenset -> name, kept as the sequence of its items; each item
\* also keeps the order its key (the first frozenset inserted) iterates in
EnumHas(es, vs) == \E i \in 1..Len(es) : es[i].key = Range(vs)
EnumLookup(es, vs) == es[CHOOSE i \in 1..Len(es) : es[i].key = Range(vs)].name

\* sets: a dict tuple -> name
SetHas(ss, vs) == \E i \in 1..Len(ss) : ss[i].key = vs
SetLookup(ss, vs) == ss[CHOOSE i \in 1..Len(ss) : ss[i].key = vs].name

NoDefault == "None"
TimestampDefault == "text(\"CURRENT_TIMESTAMP ON UPDATE CURRENT_TIMESTAMP\")"

TypeResult(atyp, pytype, sd, imp, my, pyi, es, ss) ==
    [atyp |-> atyp, pytype |-> pytype, server_default |-> sd,
     imports |-> imp, mysql |-> my, pyimports |-> pyi, enums |-> es, sets |-> ss]

\* lines 187-203: the text family
TextName(c) == IF c.charset = "" /\ c.typ = "TEXT" THEN "Text" ELSE c.typ

TextType(c, charset) ==
    IF c.charset # ""
    THEN IF c.charset # charset
         THEN c.typ \o "(charset=\"" \o c.charset \o "\")"
         ELSE c.typ
    ELSE TextName(c)

\* name.startswith(("TINY", "LONG", "MEDIUM")) or name == "TEXT"
TextIsDialect(name) == name \in {"TINYTEXT", "LONGTEXT", "MEDIUMTEXT", "TEXT"}

\* lines 205-214: fixed and variable char
StringQualified(c, charset) == c.charset # "" /\ c.charset # charset

StringName(c) == IF c.typ = "VARCHAR" THEN "String" ELSE c.typ

\* lines 141-233: the dispatch on the column's type, first matching branch wins
Dispatch(c, charset, es, ss) ==
    IF c.typ \in DoubleClasses THEN
        TypeResult("DOUBLE", "float", NoDefault, {"DOUBLE"}, {}, {}, es, ss)
    ELSE IF c.typ \in FloatClasses THEN
        TypeResult("Float", "float", NoDefault, {"Float"}, {}, {}, es, ss)
    ELSE IF c.typ \in IntegerClasses THEN
        TypeResult("Integer", "int", NoDefault, {"Integer"}, {}, {}, es, ss)
    ELSE IF c.typ \in DecimalClasses THEN
        TypeResult("DECIMAL(" \o c.precision \o "," \o c.scale \o ")", "float",
                   NoDefault, {"DECIMAL"}, {}, {}, es, ss)
    ELSE IF c.typ \in TimestampClasses THEN
        TypeResult("TIMESTAMP", "datetime", TimestampDefault, {"TIMESTAMP", "text"},
                   {}, {"from datetime import datetime"}, es, ss)
    ELSE IF c.typ \in DateTimeClasses THEN
        TypeResult("DateTime", "datetime", NoDefault, {"DateTime"}, {},
                   {"from datetime import datetime"}, es, ss)
    ELSE IF c.typ \in DateClasses THEN
        TypeResult("Date", "date", NoDefault, {"Date"}, {},
                   {"from datetime import date"}, es, ss)
    ELSE IF c.typ \in SetClasses THEN
        LET ss2 == IF SetHas(ss, c.values) THEN ss
                   ELSE Append(ss, [key |-> c.values, name |-> "set_" \o c.name])
        IN TypeResult(SetLookup(ss2, c.values), "str", NoDefault, {}, {"SET"}, {}, es, ss2)
    ELSE IF c.typ \in EnumClasses THEN
        LET es2 == IF EnumHas(es, c.values) THEN es
                   ELSE Append(es, [key |-> Range(c.values),
                                    order |-> IterOrder(c.values),
                                    name |-> "enum_" \o c.name])
        IN TypeResult(EnumLookup(es2, c.values), "str", NoDefault, {"Enum"}, {}, {}, es2, ss)
    ELSE IF c.typ \in TextClasses THEN
        IF TextIsDialect(TextName(c))
        THEN TypeResult(TextType(c, charset), "str", NoDefault, {}, {TextName(c)}, {}, es, ss)
        ELSE TypeResult(TextType(c, charset), "str", NoDefault, {TextName(c)}, {}, {}, es, ss)
    ELSE IF c.typ \in StringClasses THEN
        IF StringQualified(c, charset)
        THEN TypeResult(c.typ \o "(" \o c.length \o ", charset=\"" \o c.charset \o "\")",
                        "str", NoDefault, {}, {c.typ}, {}, es, ss)
        ELSE TypeResult(StringName(c) \o "(" \o c.length \o ")", "str", NoDefault,
                        {StringName(c)}, {}, {}, es, ss)
    ELSE IF c.typ \in BlobClasses THEN
        TypeResult(c.typ, "bytes", NoDefault, {}, {c.typ}, {}, es, ss)
    ELSE IF c.typ \in BinaryClasses THEN
        TypeResult(c.typ \o "(" \o c.length \o ")", "bytes", NoDefault, {c.typ}, {}, {}, es, ss)
    ELSE IF c.typ \in JsonClasses THEN
        TypeResult(c.typ, "str", NoDefault, {c.typ}, {}, {}, es, ss)
    ELSE \* YEAR
        TypeResult(c.typ \o "(4)", "int", NoDefault, {c.typ}, {}, {}, es, ss)

\* line 235: no branch matched
IsUnknown(c) == c.typ \notin KnownClasses

\* lines 237-238
PyType(c, pytype) == IF c.nullable THEN pytype \o " | None" ELSE pytype

\* lines 239-253: the ColDict of column c
MkColDict(c, r) ==
    [name |-> c.name, type |-> r.atyp, pytype |-> PyType(c, r.pytype), otype |-> c.typ,
     nullable |-> c.nullable, pk |-> c.primary_key, server_default |-> r.server_default,
     index |-> c.index, unique |-> c.unique, max_length |-> c.length]

\* lines 255-257: the indexes the scan of column c may stop at
Matching(indexes, c) ==
    {i \in indexes : Len(i.columns) = 1 /\ c.name \in Range(i.columns)}

\* lines 258-260: the ColDict after the scan stopped at index i
Reconciled(d, i) == [d EXCEPT !.index = TRUE, !.unique = i.unique]

\* lines 263-271: elist
RECURSIVE EnumList(_)
EnumList(es) ==
    IF Len(es) = 0 THEN <<>>
    ELSE <<<<es[1].name, "Enum(" \o JoinQuoted(es[1].order) \o ")">>>> \o EnumList(Tail(es))

RECURSIVE SetList(_)
SetList(ss) ==
    IF Len(ss) = 0 THEN <<>>
    ELSE <<<<ss[1].name, "SET(" \o JoinQuoted(ss[1].key) \o ")">>>> \o SetList(Tail(ss))

\* a run_tables that hands every pair of elist on
SeenFilterAll(elist, seen) == elist

\* lines 310-315: the pairs of elist not seen before, in elist's order
RECURSIVE SeenFilter(_, _)
SeenFilter(elist, seen) ==
    IF Len(elist) = 0 THEN <<>>
    ELSE (IF elist[1] \in seen THEN <<>> ELSE <<elist[1]>>)
         \o SeenFilter(Tail(elist), seen \cup {elist[1]})

\* defaults of run_tables(abstract=) and ModelMaker(with_tablename=)
Abstract == FALSE
WithTablename == FALSE

(***************************************************************************)
(* run_tables and convert_table.                                            *)
(***************************************************************************)
NoError == [table |-> "", column |-> "", type |-> ""]
NoOutput == <<>>
NoRun == [ran |-> FALSE]
NoIndex == [name |-> "", columns |-> <<>>, unique |-> FALSE]
CopyIdle == [pc |-> "idle"]

CurTable == tables[t]
CurColumn == tables[t].columns[ci]

\* the index the scan of lines 255-261 stops at: any matching one, the set
\* being iterated in no defined order; NoIndex when the scan finds none
ScanStops(indexes, c) ==
    IF Matching(indexes, c) = {} THEN {NoIndex} ELSE Matching(indexes, c)

\* lines 305-306, 123-133: run_tables takes the next table, convert_table starts
StartTable ==
    /\ pc = "run"
    /\ t <= Len(tables)
    /\ pc' = "cols"
    /\ ci' = 1
    /\ columns' = <<>>
    /\ enums' = <<>>
    /\ sets' = <<>>
    /\ localImp' = <<{}, {}, {}>>
    /\ UNCHANGED <<schemas, hashOrd, tables, t, runImp, enums_seen, ret, out, err,
                   first, cp>>

\* lines 135-261: one pass of the loop over table.columns, for a known type
ConvertColumn ==
    /\ pc = "cols"
    /\ ci <= Len(CurTable.columns)
    /\ ~IsUnknown(CurColumn)
    /\ LET c == CurColumn
           r == Dispatch(c, CurTable.charset, enums, sets)
           d == MkColDict(c, r)
       IN /\ enums' = r.enums
          /\ sets' = r.sets
          /\ localImp' = <<localImp[1] \cup r.imports, localImp[2] \cup r.mysql,
                           localImp[3] \cup r.pyimports>>
          /\ \E i \in ScanStops(CurTable.indexes, c) :
                /\ columns' = Append(columns, IF i = NoIndex THEN d ELSE Reconciled(d, i))
                /\ tables' = [tables EXCEPT ![t].indexes = @ \ {i}]
    /\ ci' = ci + 1
    /\ UNCHANGED <<schemas, hashOrd, pc, t, runImp, enums_seen, ret, out, err, first, cp>>

\* a convert_table that passes over a column of unknown type
RaiseUnknownSkip ==
    /\ pc = "cols"
    /\ ci <= Len(CurTable.columns)
    /\ IsUnknown(CurColumn)
    /\ ci' = ci + 1
    /\ UNCHANGED <<schemas, hashOrd, tables, pc, t, columns, enums, sets, localImp,
                   runImp, enums_seen, ret, out, err, first, cp>>

\* lines 235-236: no branch matched; the RuntimeError leaves run_tables
RaiseUnknown ==
    /\ pc = "cols"
    /\ ci <= Len(CurTable.columns)
    /\ IsUnknown(CurColumn)
    /\ pc' = "error"
    /\ err' = [table |-> CurTable.name, column |-> CurColumn.name, type |-> CurColumn.typ]
    /\ UNCHANGED <<schemas, hashOrd, tables, t, ci, columns, enums, sets, localImp,
                   runImp, enums_seen, ret, out, first, cp>>

\* lines 263-287, 307-325: convert_table returns, run_tables merges the imports,
\* drops the pairs already seen and keeps the table's record for rendering
FinishTable ==
    /\ pc = "cols"
    /\ ci > Len(CurTable.columns)
    /\ LET elist == EnumList(enums) \o SetList(sets)
           imports == IF CurTable.indexes # {} THEN localImp[1] \cup {"Index"}
                      ELSE localImp[1]
           data == [name |-> CurTable.name, columns |-> columns,
                    enums |-> SeenFilter(elist, enums_seen),
                    charset |-> CurTable.charset, indexes |-> CurTable.indexes,
                    abstract |-> Abstract, with_tablename |-> WithTablename]
       IN /\ runImp' = <<runImp[1] \cup imports, runImp[2] \cup localImp[2],
                         runImp[3] \cup localImp[3]>>
          /\ enums_seen' = enums_seen \cup Range(elist)
          /\ ret' = Append(ret, data)
    /\ t' = t + 1
    /\ pc' = "run"
    /\ UNCHANGED <<schemas, hashOrd, tables, ci, columns, enums, sets, localImp, out,
                   err, first, cp>>

\* lines 327-357: every table is translated; gen_tables prints imports and models
GenTables ==
    /\ pc = "run"
    /\ t > Len(tables)
    /\ out' = <<[imports |-> runImp[1], mysql |-> runImp[2], pyimports |-> runImp[3],
                 models |-> ret]>>
    /\ pc' = "done"
    /\ UNCHANGED <<schemas, hashOrd, tables, t, ci, columns, enums, sets, localImp,
                   runImp, enums_seen, ret, err, first, cp>>

\* a second run of run_tables, on the same schemas reflected again
Rerun ==
    /\ pc \in {"done", "error"}
    /\ ~first.ran
    /\ first' = [ran |-> TRUE, pc |-> pc, ret |-> ret, runImp |-> runImp, err |-> err]
    /\ tables' = schemas
    /\ pc' = "run"
    /\ t' = 1
    /\ ci' = 1
    /\ columns' = <<>>
    /\ enums' = <<>>
    /\ sets' = <<>>
    /\ localImp' = <<{}, {}, {}>>
    /\ runImp' = <<{}, {}, {}>>
    /\ enums_seen' = {}
    /\ ret' = <<>>
    /\ out' = NoOutput
    /\ err' = NoError
    /\ UNCHANGED <<schemas, hashOrd, cp>>

\* lines 299-304: the state run_tables starts in, on the schemas ss
RunStart(ss) ==
    /\ schemas = ss
    /\ tables = ss
    /\ pc = "run"
    /\ t = 1
    /\ ci = 1
    /\ columns = <<>>
    /\ enums = <<>>
    /\ sets = <<>>
    /\ localImp = <<{}, {}, {}>>
    /\ runImp = <<{}, {}, {}>>
    /\ enums_seen = {}
    /\ ret = <<>>
    /\ out = NoOutput
    /\ err = NoError
    /\ first = NoRun

(***************************************************************************)
(* The schemas the runs are checked on.                                     *)
(***************************************************************************)
TableNames == <<"t1", "t2", "t3", "t4", "t5", "t6">>
ColNames == <<"x", "y", "z", "w", "v", "u">>
TableCharset == "utf8"

Col(name, typ, values) ==
    [name |-> name, typ |-> typ, values |-> values, charset |-> "", length |-> "",
     precision |-> "", scale |-> "", nullable |-> TRUE, primary_key |-> FALSE,
     index |-> FALSE, unique |-> FALSE]

\* the value tuples of the ENUM columns, and the ways their frozensets may iterate
EnumTuples == {<<"a", "b">>, <<"b", "a">>, <<"a">>}
HashOrders == {h \in [EnumTuples -> UNION {Orders(vs) : vs \in EnumTuples}] :
                  \A vs \in EnumTuples : h[vs] \in Orders(vs)}
PlainHash == [vs \in EnumTuples |-> vs]

\* a table of the descriptors ds = <<typ, values>>, its columns named by position
MkTable(j, ds, indexes) ==
    [name |-> TableNames[j],
     columns |-> [p \in 1..Len(ds) |-> Col(ColNames[p], ds[p][1], ds[p][2])],
     indexes |-> indexes, charset |-> TableCharset]

\* flat cut into tables after each position of breaks
RECURSIVE Chunks(_, _, _)
Chunks(flat, breaks, i) ==
    IF i > Len(flat) THEN <<>>
    ELSE LET ends == {b \in breaks \cup {Len(flat)} : b >= i}
             e == CHOOSE b \in ends : \A b2 \in ends : b <= b2
         IN <<SubSeq(flat, i, e)>> \o Chunks(flat, breaks, e + 1)

RunTypes == {<<"INTEGER", <<>>>>, <<"ENUM", <<"a", "b">>>>, <<"ENUM", <<"b", "a">>>>,
             <<"ENUM", <<"a">>>>, <<"SET", <<"a", "b">>>>, <<"SET", <<"b", "a">>>>,
             <<"TIME", <<>>>>}

\* every sequence of tables with max columns or fewer in all
RunInputs(max) ==
    {LET chunks == Chunks(fb[1], fb[2], 1)
     IN [j \in 1..Len(chunks) |-> MkTable(j, chunks[j], {})] :
        fb \in UNION {[1..n -> RunTypes] \X SUBSET (1..(n - 1)) :
                                       n \in 0..max}}

Init ==
    /\ \E ss \in RunInputs(MaxColumns) : RunStart(ss)
    /\ hashOrd \in HashOrders
    /\ cp = CopyIdle

Next == StartTable \/ ConvertColumn \/ RaiseUnknown \/ FinishTable \/ GenTables

Spec == Init /\ [][Next]_vars

(***************************************************************************)
(* Runs over one table with indexes, run twice.                             *)
(***************************************************************************)
IndexNames == <<"i1", "i2", "i3", "i4">>
IdxTypes == {<<"INTEGER", <<>>>>, <<"TIME", <<>>>>}

\* the names of the columns at the positions ps, in column order
RECURSIVE NamesAt(_, _)
NamesAt(ps, p) ==
    IF p > Len(ColNames) THEN <<>>
    ELSE (IF p \in ps THEN <<ColNames[p]>> ELSE <<>>) \o NamesAt(ps, p + 1)

\* the index sets of max indexes or fewer over n columns
IndexSets(n, max) ==
    {{[name |-> IndexNames[k], columns |-> NamesAt(is[k][1], 1), unique |-> is[k][2]] :
          k \in 1..Len(is)} :
        is \in UNION {[1..m -> (SUBSET (1..n) \ {{}}) \X BOOLEAN] : m \in 0..max}}

IdxInputs(maxCols, maxIdx) ==
    UNION {{<<MkTable(1, ds, ix)>> :
               <<ds, ix>> \in [1..n -> IdxTypes] \X IndexSets(n, maxIdx)} :
              n \in 1..maxCols}

InitIdx ==
    /\ \E ss \in IdxInputs(MaxIdxCols, MaxIndexes) : RunStart(ss)
    /\ hashOrd = PlainHash
    /\ cp = CopyIdle

NextIdx == Next \/ Rerun

SpecIdx == InitIdx /\ [][NextIdx]_vars

(***************************************************************************)
(* Runs over one column of each type class.                                 *)
(***************************************************************************)
\* the classes whose objects carry a charset attribute
CharsetClasses == {"TEXT", "MEDIUMTEXT", "TINYTEXT", "LONGTEXT", "VARCHAR", "CHAR"}
LengthClasses == StringClasses \cup BinaryClasses

TypedColumns ==
    {[Col("x", typ, vs) EXCEPT !.charset = cs, !.nullable = nl,
                               !.length = IF typ \in LengthClasses THEN "16" ELSE "",
                               !.precision = IF typ \in DecimalClasses THEN "10" ELSE "",
                               !.scale = IF typ \in DecimalClasses THEN "2" ELSE ""] :
        <<typ, vs, cs, nl>> \in
            {q \in (KnownClasses \cup UnknownClasses) \X {<<>>, <<"a", "b">>, <<"b", "a">>}
                   \X {"", "utf8", "latin1"} \X BOOLEAN :
                /\ (q[2] # <<>>) <=> (q[1] \in SetClasses \cup EnumClasses)
                /\ (q[3] # "") => (q[1] \in CharsetClasses)}}

InitTypes ==
    /\ \E c \in TypedColumns :
          RunStart(<<[name |-> TableNames[1], columns |-> <<c>>, indexes |-> {},
                      charset |-> TableCharset]>>)
    /\ hashOrd \in HashOrders
    /\ cp = CopyIdle

SpecTypes == InitTypes /\ [][Next]_vars

(***************************************************************************)
(* mkcopy.                                                                  *)
(***************************************************************************)
NoTable == [name |-> "", columns |-> <<>>, indexes |-> {}, charset |-> ""]

\* lines 368-369: the columns of cs that are (wantPk) or are not in the primary key
RECURSIVE SelectCols(_, _)
SelectCols(cs, wantPk) ==
    IF Len(cs) = 0 THEN <<>>
    ELSE (IF cs[1].primary_key = wantPk THEN <<cs[1]>> ELSE <<>>)
         \o SelectCols(Tail(cs), wantPk)

\* a mkcopy that leaves primary_key set on the copies
DemoteKeep(pks) == pks

\* lines 370-372: the former key columns, copied, no longer primary keys
Demote(pks) == [i \in 1..Len(pks) |-> [pks[i] EXCEPT !.primary_key = FALSE]]

\* line 379: Index("fk_index", *(p.name for p in pks), unique=False)
FkIndex(pks) ==
    [name |-> "fk_index", columns |-> [i \in 1..Len(pks) |-> pks[i].name],
     unique |-> FALSE]

\* lines 381-387: Index(i.name, *(c.name for c in i.columns), unique=i.unique)
CopyIndexes(indexes) ==
    {[name |-> i.name, columns |-> i.columns, unique |-> i.unique] : i \in indexes}

\* line 394: Column(pkname, Integer, primary_key=True)
NewKey(pkname) ==
    [Col(pkname, "Integer", <<>>) EXCEPT !.primary_key = TRUE, !.nullable = FALSE]

\* lines 374-375: the loop appends "_" once more
NameTaken(pkname, names) == pkname \in names

\* lines 366-372: indexes, names, pks and cols are taken from the source table
MkcopyBegin ==
    /\ cp.pc = "called"
    /\ cp' = [cp EXCEPT !.pc = "resolve",
                        !.names = {c.name : c \in Range(cp.table.columns)},
                        !.pks = Demote(SelectCols(cp.table.columns, TRUE)),
                        !.cols = SelectCols(cp.table.columns, FALSE)]
    /\ UNCHANGED runVars

\* lines 378-397: the Table mkcopy returns, its key column named pkname
BuildTable(c, pkname) ==
    [name |-> c.name,
     columns |-> <<NewKey(pkname)>> \o c.pks \o c.cols,
     indexes |-> {FkIndex(c.pks)} \cup CopyIndexes(c.table.indexes),
     charset |-> c.table.charset]

\* a mkcopy that appends "_" once, with an if in place of the while
MkcopyResolveOnce ==
    /\ cp.pc = "resolve"
    /\ NameTaken(cp.pkname, cp.names)
    /\ cp' = [cp EXCEPT !.pc = "copied", !.pkname = cp.pkname \o "_",
                        !.result = BuildTable(cp, cp.pkname \o "_")]
    /\ UNCHANGED runVars

\* lines 374-376: one pass of the while loop
MkcopyResolve ==
    /\ cp.pc = "resolve"
    /\ NameTaken(cp.pkname, cp.names)
    /\ cp' = [cp EXCEPT !.pkname = cp.pkname \o "_"]
    /\ UNCHANGED runVars

\* lines 378-397: the loop is left, the new Table is built
MkcopyBuild ==
    /\ cp.pc = "resolve"
    /\ ~NameTaken(cp.pkname, cp.names)
    /\ cp' = [cp EXCEPT !.pc = "copied",
                        !.result = BuildTable(cp, cp.pkname)]
    /\ UNCHANGED runVars

\* the call mkcopy(table, table.name + postfix, meta, pk) of backups
MkcopyCall(table, postfix, pk) ==
    [pc |-> "called", table |-> table, name |-> table.name \o postfix, arg_pkname |-> pk,
     pkname |-> pk, names |-> {}, pks |-> <<>>, cols |-> <<>>, result |-> NoTable]

\* the column names and key names of the source tables
SrcNames == <<"id", "id_", "id__", "a">>
KeyNames == {"id", "a", "k"}
Postfix == "_backup"

\* the names of SrcNames at the positions ps, in order
RECURSIVE PickNames(_, _)
PickNames(ps, p) ==
    IF p > Len(SrcNames) THEN <<>>
    ELSE (IF p \in ps THEN <<SrcNames[p]>> ELSE <<>>) \o PickNames(ps, p + 1)
NamesOf(ps) == PickNames(ps, 1)

\* source columns: a choice of max names or fewer, each a key column or not
SrcColumns(max) ==
    UNION {{[i \in 1..Len(NamesOf(ps)) |->
                [Col(NamesOf(ps)[i], "INTEGER", <<>>) EXCEPT
                    !.primary_key = (i \in ks), !.nullable = (i \notin ks)]] :
               ks \in SUBSET (1..Cardinality(ps))} :
              ps \in {q \in SUBSET (1..Len(SrcNames)) :
                         Cardinality(q) \in 1..max}}

\* source indexes: one on the first column, one named like the new index
SrcIndexes(cs) ==
    SUBSET {[name |-> "ix1", columns |-> <<cs[1].name>>, unique |-> TRUE],
            [name |-> "fk_index", columns |-> [i \in 1..Len(cs) |-> cs[i].name],
             unique |-> TRUE]}

InitCopy ==
    /\ RunStart(<<>>)
    /\ hashOrd = PlainHash
    /\ \E cs \in SrcColumns(MaxSrcCols) : \E ix \in SrcIndexes(cs) : \E pk \in KeyNames :
          cp = MkcopyCall([name |-> "orders", columns |-> cs, indexes |-> ix,
                           charset |-> TableCharset], Postfix, pk)

NextCopy == MkcopyBegin \/ MkcopyResolve \/ MkcopyBuild

SpecCopy == InitCopy /\ [][NextCopy]_vars

(***************************************************************************)
(* The claims.                                                              *)
(***************************************************************************)
\* the tables run_tables has finished translating
Done == 1..Len(ret)

\* the positions of the enumeration columns of schema table k
EnumCols(k) == {p \in 1..Len(schemas[k].columns) : schemas[k].columns[p].typ \in EnumClasses}
SetCols(k) == {p \in 1..Len(schemas[k].columns) : schemas[k].columns[p].typ \in SetClasses}

\* C1: in one run, any two enumeration columns, in the same table or in
\* different tables, whose permitted values are equal as sets have the same
\* generated type name.
C1_EqualEnumsShareName ==
    \A i \in Done, j \in Done : \A p \in EnumCols(i), q \in EnumCols(j) :
        Range(schemas[i].columns[p].values) = Range(schemas[j].columns[q].values)
            => ret[i].columns[p].type = ret[j].columns[q].type

\* the columns of the run whose type no branch of the dispatch handles
Offending ==
    {<<i, p>> \in (1..Len(schemas)) \X (1..Len(ColNames)) :
        /\ p <= Len(schemas[i].columns)
        /\ schemas[i].columns[p].typ \in UnknownClasses}

\* C2: if some column of some table of the run has a type outside the dispatch
\* table, the run ends in an error naming the table and column of such a column,
\* every table before that one and none from it on has been translated, and
\* gen_tables is never reached: nothing is printed for any table.
C2_UnknownTypeAborts ==
    Offending # {} =>
        /\ pc # "done"
        /\ out = NoOutput
        /\ (~ENABLED Next) => pc = "error"
        /\ pc = "error" =>
              \E o \in Offending :
                 /\ err.table = schemas[o[1]].name
                 /\ err.column = schemas[o[1]].columns[o[2]].name
                 /\ Len(ret) = o[1] - 1
                 /\ t = o[1]

C2_Witness ==
    /\ pc = "error"
    /\ Len(ret) >= 1
    /\ err.table = schemas[2].name

\* C3: after convert_table, every column covered by a single-column index has
\* index = TRUE and unique = that index's uniqueness, that index has left the
\* table's index collection, and every index over two or more columns is still
\* in it.
C3_SingleColumnIndexesReconciled ==
    \A k \in Done :
        /\ \A i \in schemas[k].indexes : Len(i.columns) = 1 =>
              /\ i \notin ret[k].indexes
              /\ \A p \in 1..Len(ret[k].columns) :
                    ret[k].columns[p].name = i.columns[1] =>
                        /\ ret[k].columns[p].index = TRUE
                        /\ ret[k].columns[p].unique = i.unique
        /\ \A i \in schemas[k].indexes : Len(i.columns) >= 2 => i \in ret[k].indexes

\* C6: two runs of run_tables on the same schemas produce the same table
\* records, index and unique flags and leftover indexes included, and the same
\* generated names, whatever order the index collection is scanned in.
C6_RunsAgree ==
    (first.ran /\ first.pc = "done" /\ pc = "done") =>
        /\ ret = first.ret
        /\ runImp = first.runImp

\* the symbol section 4.1 requires for column c, and whether it is a dialect
\* extension there
C7Symbol(c, charset) ==
    IF c.typ \in DoubleClasses THEN "DOUBLE"
    ELSE IF c.typ \in FloatClasses THEN "Float"
    ELSE IF c.typ \in IntegerClasses THEN "Integer"
    ELSE IF c.typ \in DecimalClasses THEN "DECIMAL"
    ELSE IF c.typ \in TimestampClasses THEN "TIMESTAMP"
    ELSE IF c.typ \in DateTimeClasses THEN "DateTime"
    ELSE IF c.typ \in DateClasses THEN "Date"
    ELSE IF c.typ \in SetClasses THEN "SET"
    ELSE IF c.typ \in EnumClasses THEN "Enum"
    ELSE IF c.typ \in TextClasses THEN
        (IF c.typ = "TEXT" /\ c.charset = "" THEN "Text" ELSE c.typ)
    ELSE IF c.typ \in StringClasses THEN
        (IF c.typ = "VARCHAR" /\ (c.charset = "" \/ c.charset = charset) THEN "String"
         ELSE c.typ)
    ELSE c.typ

C7Dialect(c, charset) ==
    \/ c.typ \in DoubleClasses \cup SetClasses \cup BlobClasses
    \/ C7Symbol(c, charset) \in {"TEXT", "TINYTEXT", "MEDIUMTEXT", "LONGTEXT"}
    \/ c.typ \in StringClasses /\ c.charset # "" /\ c.charset # charset

\* C7: for every category of the dispatch table, convert_table records the
\* required symbol in the set section 4.1 names and not in the other one: DOUBLE,
\* SET, the TEXT family names, charset-qualified CHAR/VARCHAR and the BLOB
\* family are dialect extensions, every other symbol is a core import; a DOUBLE
\* column has target DOUBLE and semantic type float.
C7_SymbolsInNamedSet ==
    \A k \in Done : \A p \in 1..Len(schemas[k].columns) :
        LET c == schemas[k].columns[p]
            sym == C7Symbol(c, schemas[k].charset)
        IN /\ Len(schemas[k].columns) = 1 =>
                IF C7Dialect(c, schemas[k].charset)
                THEN sym \in runImp[2] /\ sym \notin runImp[1]
                ELSE sym \in runImp[1] /\ sym \notin runImp[2]
           /\ c.typ \in DoubleClasses =>
                /\ ret[k].columns[p].type = "DOUBLE"
                /\ ret[k].columns[p].pytype \in {"float", "float | None"}
           /\ c.typ \in FloatClasses \ DoubleClasses => ret[k].columns[p].type = "Float"

\* C7 without the double-precision row
C7_ExceptDouble ==
    (\A k \in Done : \A p \in 1..Len(schemas[k].columns) :
        schemas[k].columns[p].typ \notin DoubleClasses) => C7_SymbolsInNamedSet

\* C8: after convert_table every index left in the table's index collection
\* covers two or more columns.
C8_LeftoversAreMultiColumn ==
    \A k \in Done : \A i \in ret[k].indexes : Len(i.columns) >= 2

\* no column of a schema table is covered by two single-column indexes
NoDuplicateIndexes ==
    \A k \in 1..Len(schemas) : \A i \in schemas[k].indexes, j \in schemas[k].indexes :
        (Len(i.columns) = 1 /\ i.columns = j.columns) => i = j

\* C3, C6 and C8 where no column is covered by two single-column indexes
ReconciledExceptDuplicates ==
    NoDuplicateIndexes =>
        /\ C3_SingleColumnIndexesReconciled
        /\ C6_RunsAgree
        /\ C8_LeftoversAreMultiColumn

\* the (name, definition) pairs the columns of schema table k use: the name comes
\* from the first column of the table with that key, the definition from its values
FirstEnum(k, p) ==
    CHOOSE q \in EnumCols(k) :
        /\ Range(schemas[k].columns[q].values) = Range(schemas[k].columns[p].values)
        /\ \A q2 \in EnumCols(k) :
              Range(schemas[k].columns[q2].values) = Range(schemas[k].columns[p].values)
                  => q <= q2
FirstSet(k, p) ==
    CHOOSE q \in SetCols(k) :
        /\ schemas[k].columns[q].values = schemas[k].columns[p].values
        /\ \A q2 \in SetCols(k) :
              schemas[k].columns[q2].values = schemas[k].columns[p].values => q <= q2
UsedPairs(k) ==
    {<<"enum_" \o schemas[k].columns[FirstEnum(k, p)].name,
       "Enum(" \o JoinQuoted(hashOrd[schemas[k].columns[FirstEnum(k, p)].values]) \o ")">> :
        p \in EnumCols(k)}
    \cup
    {<<"set_" \o schemas[k].columns[FirstSet(k, p)].name,
       "SET(" \o JoinQuoted(schemas[k].columns[FirstSet(k, p)].values) \o ")">> :
        p \in SetCols(k)}
Emitted(k) == Range(ret[k].enums)
EmittedBefore(k) == UNION {Emitted(j) : j \in 1..(k - 1)}

C9_State ==
    /\ \A k \in Done :
          /\ Emitted(k) = UsedPairs(k) \ EmittedBefore(k)
          /\ Cardinality(Emitted(k)) = Len(ret[k].enums)
          /\ \A p \in EnumCols(k) \cup SetCols(k) :
                \E j \in 1..k : \E e \in Emitted(j) : e[1] = ret[k].columns[p].type
    /\ \A j \in Done, k \in Done : j # k => Emitted(j) \cap Emitted(k) = {}
    /\ enums_seen = EmittedBefore(Len(ret) + 1)

\* C9: the enum/set list handed to the renderer for table tk holds exactly the
\* (name, definition) pairs tk's columns use that were in the list of no earlier
\* table; no pair is emitted for two tables, the set of seen pairs only grows, and
\* every enum/set type name a column of tk uses has a definition emitted for tk
\* or for an earlier table.
C9_OnlyNewPairsEmitted == [][(enums_seen \subseteq enums_seen') /\ C9_State']_vars

C9_Witness ==
    /\ Len(ret) = 2
    /\ ret[1].enums # <<>>
    /\ ret[2].enums = <<>>
    /\ EnumCols(2) # {}

\* the value set of a definition text
DefValues(d) ==
    UNION {Range(vs) : vs \in {v \in EnumTuples :
              d \in {"Enum(" \o JoinQuoted(v) \o ")", "SET(" \o JoinQuoted(v) \o ")"}}}

\* C10: across one run no two tables emit pairs with the same generated name
\* and different value sets.
C10_OneDefinitionPerName ==
    \A j \in Done, k \in Done : \A e \in Emitted(j), f \in Emitted(k) :
        e[1] = f[1] => DefValues(e[2]) = DefValues(f[2])

\* the names of the source table's key columns
SrcKeyNames == {c.name : c \in {d \in Range(cp.table.columns) : d.primary_key}}

\* C4: the table mkcopy returns holds every source key column as a non-key
\* column, its only key column is the new integer column, placed first, an index
\* fk_index with unique = FALSE covers exactly the former key columns, and every
\* source index is there with its name, columns and uniqueness.
C4_CopyDemotesKey ==
    cp.pc = "copied" =>
        LET r == cp.result
        IN /\ \A c \in Range(cp.table.columns) :
                 \E p \in 2..Len(r.columns) :
                    /\ r.columns[p].name = c.name
                    /\ r.columns[p].typ = c.typ
                    /\ ~r.columns[p].primary_key
           /\ Len(r.columns) = Len(cp.table.columns) + 1
           /\ r.columns[1].primary_key
           /\ r.columns[1].typ \in IntegerClasses
           /\ r.columns[1].name \notin {c.name : c \in Range(cp.table.columns)}
           /\ \E i \in r.indexes :
                 /\ i.name = "fk_index"
                 /\ i.unique = FALSE
                 /\ Range(i.columns) = SrcKeyNames
                 /\ Len(i.columns) = Cardinality(SrcKeyNames)
           /\ cp.table.indexes \subseteq r.indexes
           /\ r.charset = cp.table.charset

C4_Witness ==
    /\ cp.pc = "copied"
    /\ Cardinality(SrcKeyNames) = 2
    /\ Len(cp.table.columns) = 3
    /\ Cardinality(cp.table.indexes) = 2

\* C5: name resolution ends after at most one pass per source column name, and
\* the new key column is named the desired name followed by the smallest number
\* k >= 0 of "_" for which the result is no source column name.
C5_SmallestSuffix ==
    LET srcNames == {c.name : c \in Range(cp.table.columns)}
    IN cp.pc # "idle" =>
        /\ Len(cp.pkname) - Len(cp.arg_pkname) \in 0..Cardinality(srcNames)
        /\ cp.pkname = cp.arg_pkname \o Underscores(Len(cp.pkname) - Len(cp.arg_pkname))
        /\ cp.pc = "copied" =>
              /\ cp.result.columns[1].name = cp.pkname
              /\ cp.pkname \notin srcNames
              /\ \A j \in 0..Cardinality(srcNames) :
                    j < Len(cp.pkname) - Len(cp.arg_pkname)
                        => (cp.arg_pkname \o Underscores(j)) \in srcNames

C5_Witness ==
    /\ cp.pc = "copied"
    /\ cp.arg_pkname = "id"
    /\ cp.pkname = "id__"
=============================================================================
